---- MODULE Spec2Model ----
(***************************************************************************)
(* Invite issuance of src/components/InviteManager.tsx: the component      *)
(* state (loading, error), the Firestore documents it reads and writes     *)
(* (users/{uid}, invites/{autoId}) and the optimistic transaction that     *)
(* handleGenerate runs.  Redemption of a code is not part of the component *)
(* and is modelled from the design document (section 4.3).                 *)
(***************************************************************************)
EXTENDS Integers, Sequences, FiniteSets, TLC

\* ------------------------------------------------------------------ bounds
NumClients == 2      \* mounted InviteManager components
NumCodes == 2        \* distinct strings generateUniqueCode can return
MaxInvites == 2      \* documents the invites collection can hold
MaxQuota == 2        \* largest initial invitesAvailable of an ordinary user
MaxAttempts == 2     \* attempts of one runTransaction
MaxTime == 2         \* server clock values 0..MaxTime
NumAccounts == 2     \* accounts that redeem codes
MaxVer == 2          \* versions of a user document reached by replenishment

\* --------------------------------------------------------------- constants
NexusExpiry == 1     \* new Date(2026, 5, 30) on the 0..MaxTime clock
NoTime == -1         \* usedAt: null
NoAccount == 0       \* usedBy: null

NoError == "null"
ErrUserNotFound == "Usuario nao encontrado."
ErrNoQuota == "Voce nao possui mais convites disponiveis."
ErrContention == "aborted"
ErrFeed == "Erro de permissao ou conexao ao carregar historico."

Clients == 1 .. NumClients
Codes == 1 .. NumCodes
Accounts == 1 .. NumAccounts
Users == {"ana", "root"}
NoUid == ""

\* The userStats props a component can be mounted with: ana is an ordinary
\* user, root is privileged either by role or by the adm flag.
StatsSet ==
  { [uid |-> "ana", role |-> "user", adm |-> FALSE],
    [uid |-> "root", role |-> "admin", adm |-> FALSE],
    [uid |-> "root", role |-> "user", adm |-> TRUE] }

IsAdmin(stats) == stats.role = "admin" \/ stats.adm = TRUE

\* The userStats prop: the profile and the invitesAvailable the component
\* was handed, which nothing in the component refreshes.
Stats(profile, cached) ==
  [uid |-> profile.uid, role |-> profile.role, adm |-> profile.adm,
   invitesAvailable |-> cached]

\* (userStats.invitesAvailable || 0) > 0
HasQuota(stats) == stats.invitesAvailable > 0

\* isAdmin || hasQuota: whether the generate button is rendered.
CanGenerate(stats) == IsAdmin(stats) \/ HasQuota(stats)

\* A users/{uid} document snapshot; exists = FALSE is a missing document.
NoUserDoc == [exists |-> FALSE, hasQuota |-> FALSE, invitesAvailable |-> 0, ver |-> 0]
UserDoc(q) == [exists |-> TRUE, hasQuota |-> TRUE, invitesAvailable |-> q, ver |-> 0]
UserDocNoField == [exists |-> TRUE, hasQuota |-> FALSE, invitesAvailable |-> 0, ver |-> 0]

\* userData.invitesAvailable || 0
QuotaOrZero(snap) ==
  IF snap.hasQuota /\ snap.invitesAvailable # 0 THEN snap.invitesAvailable ELSE 0

VARIABLES users, invites, now, userStats, cl, rd, feed, sub

vars == <<users, invites, now, userStats, cl, rd, feed, sub>>

\* ------------------------------------------------- the transaction body
\* Variant: the quota check does not exempt administrators.
QuotaBlockedForAll(isAdmin, currentQuota) == currentQuota <= 0

\* if (!isAdmin && currentQuota <= 0) throw
QuotaBlocked(isAdmin, currentQuota) == ~isAdmin /\ currentQuota <= 0

\* A buffered write of the transaction.  The invite's document id
\* (doc(collection(db, "invites"))) and createdAt (serverTimestamp()) are
\* placeholders that the server resolves when the write is applied.
SetInvite(uid, newCode) ==
  [op |-> "set", uid |-> uid, code |-> newCode, quota |-> 0]

\* Variant: the allowance is decremented instead of being set to 0.
NewQuotaDecrement(currentQuota) == currentQuota - 1

\* invitesAvailable: 0
NewQuota(currentQuota) == 0

UpdateQuota(uid, currentQuota) ==
  [op |-> "update", uid |-> uid, code |-> 0, quota |-> NewQuota(currentQuota)]

\* Variant: the allowance is written for administrators too.
QuotaWritesForAll(isAdmin, uid, currentQuota) == <<UpdateQuota(uid, currentQuota)>>

\* if (!isAdmin) transaction.update(userRef, {invitesAvailable: 0})
QuotaWrites(isAdmin, uid, currentQuota) ==
  IF ~isAdmin THEN <<UpdateQuota(uid, currentQuota)>> ELSE << >>

\* Variant: no quota check, and the allowance is decremented.
UpdateFunctionUnchecked(stats, userSnap, newCode) ==
  IF ~userSnap.exists
  THEN [threw |-> ErrUserNotFound, currentQuota |-> 0, writes |-> << >>]
  ELSE LET currentQuota == QuotaOrZero(userSnap) IN
       [threw |-> NoError, currentQuota |-> currentQuota,
        writes |-> <<SetInvite(stats.uid, newCode)>>
                   \o (IF ~IsAdmin(stats)
                       THEN <<[op |-> "update", uid |-> stats.uid, code |-> 0,
                               quota |-> currentQuota - 1]>>
                       ELSE << >>)]

\* Variant: the gate uses the allowance cached in the userStats prop.
UpdateFunctionCached(stats, userSnap, newCode) ==
  IF ~userSnap.exists
  THEN [threw |-> ErrUserNotFound, currentQuota |-> 0, writes |-> << >>]
  ELSE LET currentQuota == stats.invitesAvailable IN
       IF QuotaBlocked(IsAdmin(stats), currentQuota)
       THEN [threw |-> ErrNoQuota, currentQuota |-> currentQuota, writes |-> << >>]
       ELSE [threw |-> NoError, currentQuota |-> currentQuota,
             writes |-> <<SetInvite(stats.uid, newCode)>>
                        \o QuotaWrites(IsAdmin(stats), stats.uid, currentQuota)]

\* The function handed to runTransaction, after transaction.get(userRef)
\* returned userSnap and generateUniqueCode() returned newCode.
UpdateFunction(stats, userSnap, newCode) ==
  IF ~userSnap.exists
  THEN [threw |-> ErrUserNotFound, currentQuota |-> 0, writes |-> << >>]
  ELSE LET currentQuota == QuotaOrZero(userSnap) IN
       IF QuotaBlocked(IsAdmin(stats), currentQuota)
       THEN [threw |-> ErrNoQuota, currentQuota |-> currentQuota, writes |-> << >>]
       ELSE [threw |-> NoError, currentQuota |-> currentQuota,
             writes |-> <<SetInvite(stats.uid, newCode)>>
                        \o QuotaWrites(IsAdmin(stats), stats.uid, currentQuota)]

\* ------------------------------------------------------------ the store
\* Variant: usedAt is stamped like createdAt.
NewInviteStamped(w, t) ==
  [code |-> w.code, createdBy |-> w.uid, used |-> FALSE, usedBy |-> NoAccount,
   createdAt |-> t, usedAt |-> t, expiresAt |-> NexusExpiry, ver |-> 0]

NewInvite(w, t) ==
  [code |-> w.code, createdBy |-> w.uid, used |-> FALSE, usedBy |-> NoAccount,
   createdAt |-> t, usedAt |-> NoTime, expiresAt |-> NexusExpiry, ver |-> 0]

\* Variant: the code is the document id, so that set() on a code that is
\* already stored overwrites that document.
ApplyWriteByCode(store, w, t) ==
  IF w.op = "set"
  THEN IF \E i \in 1 .. Len(store.invites) : store.invites[i].code = w.code
       THEN [store EXCEPT !.invites =
               [i \in 1 .. Len(@) |->
                  IF @[i].code = w.code THEN NewInvite(w, t) ELSE @[i]]]
       ELSE [store EXCEPT !.invites = Append(@, NewInvite(w, t))]
  ELSE [store EXCEPT !.users[w.uid] =
          [@ EXCEPT !.hasQuota = TRUE, !.invitesAvailable = w.quota, !.ver = @ + 1]]

ApplyWrite(store, w, t) ==
  IF w.op = "set"
  THEN [store EXCEPT !.invites = Append(@, NewInvite(w, t))]
  ELSE [store EXCEPT !.users[w.uid] =
          [@ EXCEPT !.hasQuota = TRUE, !.invitesAvailable = w.quota, !.ver = @ + 1]]

\* Variant: the invite is written on its own, the quota write is lost.
ApplyFirstWrite(store, writes, t) ==
  IF writes = << >> THEN store ELSE ApplyWrite(store, Head(writes), t)

\* The commit of a transaction applies every buffered write, in order, as
\* one step of the store.
RECURSIVE ApplyWrites(_, _, _)
ApplyWrites(store, writes, t) ==
  IF writes = << >> THEN store
  ELSE ApplyWrites(ApplyWrite(store, Head(writes), t), Tail(writes), t)

\* Variant: reads and writes outside a transaction, nothing is verified.
CommitUnverified(userDoc, readVer) == userDoc.exists

\* The commit succeeds only if the user document read by transaction.get
\* still exists and has the version that was read.
CommitValid(userDoc, readVer) == userDoc.exists /\ userDoc.ver = readVer

\* --------------------------------------------------------- the component
IdleClient ==
  [pc |-> "idle", loading |-> FALSE, error |-> NoError, txs |-> 0,
   attempts |-> 0, currentQuota |-> 0, readVer |-> 0, writes |-> << >>]

InFlight == Cardinality({c \in Clients : cl[c].loading})

\* catch (err) { setError(err.message) } finally { setLoading(false) }
Finished(c, err) ==
  [cl[c] EXCEPT !.pc = "idle", !.loading = FALSE, !.error = err,
                !.txs = @ - 1, !.attempts = 0, !.currentQuota = 0, !.readVer = 0,
                !.writes = << >>]

\* Variant: the call does not look at loading.
HandleGenerateUnguarded(c) ==
  /\ userStats[c].uid # NoUid
  /\ Len(invites) + InFlight < MaxInvites
  /\ cl' = [cl EXCEPT ![c] = [@ EXCEPT !.pc = "get", !.loading = TRUE,
                                       !.error = NoError, !.txs = @ + 1,
                                       !.attempts = 1]]
  /\ UNCHANGED <<users, invites, now, userStats, rd, feed, sub>>

\* if (!userStats.uid || loading) return; setLoading(true); setError(null)
HandleGenerate(c) ==
  /\ userStats[c].uid # NoUid
  /\ ~cl[c].loading
  /\ Len(invites) + InFlight < MaxInvites
  /\ cl' = [cl EXCEPT ![c] = [@ EXCEPT !.pc = "get", !.loading = TRUE,
                                       !.error = NoError, !.txs = @ + 1,
                                       !.attempts = 1]]
  /\ UNCHANGED <<users, invites, now, userStats, rd, feed, sub>>

\* if (!userStats.uid || loading) return
HandleGenerateIgnored(c) ==
  /\ userStats[c].uid = NoUid \/ cl[c].loading
  /\ UNCHANGED vars

\* One run of the update function: transaction.get, the checks, the
\* buffered writes.
TxGet(c) ==
  /\ cl[c].pc = "get"
  /\ \E newCode \in Codes :
       LET r == UpdateFunction(userStats[c], users[userStats[c].uid], newCode) IN
       IF r.threw # NoError
       THEN cl' = [cl EXCEPT ![c] = Finished(c, r.threw)]
       ELSE cl' = [cl EXCEPT ![c] =
                     [@ EXCEPT !.pc = "commit", !.currentQuota = r.currentQuota,
                               !.readVer = users[userStats[c].uid].ver,
                               !.writes = r.writes]]
  /\ UNCHANGED <<users, invites, now, userStats, rd, feed, sub>>

\* Variant: the writes of a refused attempt reach the store before the retry.
TxCommitLeaky(c) ==
  /\ cl[c].pc = "commit"
  /\ LET s == ApplyWrites([users |-> users, invites |-> invites],
                          cl[c].writes, now) IN
     IF CommitValid(users[userStats[c].uid], cl[c].readVer)
     THEN /\ users' = s.users
          /\ invites' = s.invites
          /\ cl' = [cl EXCEPT ![c] = Finished(c, NoError)]
     ELSE IF cl[c].attempts < MaxAttempts
          THEN /\ users' = s.users
               /\ invites' = s.invites
               /\ cl' = [cl EXCEPT ![c] =
                           [@ EXCEPT !.pc = "get", !.attempts = @ + 1,
                                     !.readVer = 0, !.writes = << >>]]
          ELSE /\ UNCHANGED <<users, invites>>
               /\ cl' = [cl EXCEPT ![c] = Finished(c, ErrContention)]
  /\ UNCHANGED <<now, userStats, rd, feed, sub>>

\* Variant: a refused commit is retried without a budget.
TxCommitUnbounded(c) ==
  /\ cl[c].pc = "commit"
  /\ IF CommitValid(users[userStats[c].uid], cl[c].readVer)
     THEN LET s == ApplyWrites([users |-> users, invites |-> invites],
                               cl[c].writes, now) IN
          /\ users' = s.users
          /\ invites' = s.invites
          /\ cl' = [cl EXCEPT ![c] = Finished(c, NoError)]
     ELSE /\ UNCHANGED <<users, invites>>
          /\ cl' = [cl EXCEPT ![c] =
                      [@ EXCEPT !.pc = "get", !.attempts = @ + 1,
                                !.readVer = 0, !.writes = << >>]]
  /\ UNCHANGED <<now, userStats, rd, feed, sub>>

\* The commit of the transaction, its retry, or its final failure.
TxCommit(c) ==
  /\ cl[c].pc = "commit"
  /\ IF CommitValid(users[userStats[c].uid], cl[c].readVer)
     THEN LET s == ApplyWrites([users |-> users, invites |-> invites],
                               cl[c].writes, now) IN
          /\ users' = s.users
          /\ invites' = s.invites
          /\ cl' = [cl EXCEPT ![c] = Finished(c, NoError)]
     ELSE /\ UNCHANGED <<users, invites>>
          /\ IF cl[c].attempts < MaxAttempts
             THEN cl' = [cl EXCEPT ![c] =
                           [@ EXCEPT !.pc = "get", !.attempts = @ + 1,
                                     !.readVer = 0, !.writes = << >>]]
             ELSE cl' = [cl EXCEPT ![c] = Finished(c, ErrContention)]
  /\ UNCHANGED <<now, userStats, rd, feed, sub>>

\* ----------------------------------------------------- the subscription
\* { id: d.id, ...data, status: data.used ? 'used' : 'active' }
FeedEntry(id, data) ==
  [id |-> id, code |-> data.code, createdBy |-> data.createdBy,
   used |-> data.used, usedBy |-> data.usedBy, createdAt |-> data.createdAt,
   usedAt |-> data.usedAt, expiresAt |-> data.expiresAt,
   status |-> IF data.used THEN "used" ELSE "active"]

\* The documents where("createdBy", "==", uid) selects.
Matching(store, uid) == {i \in 1 .. Len(store) : store[i].createdBy = uid}

\* orderBy("createdAt", "desc"); equal stamps fall back on the document id.
Newer(store, i, j) ==
  \/ store[i].createdAt > store[j].createdAt
  \/ store[i].createdAt = store[j].createdAt /\ i > j

RECURSIVE Ordered(_, _)
Ordered(store, ids) ==
  IF ids = {} THEN << >>
  ELSE LET top == CHOOSE i \in ids : \A j \in ids \ {i} : Newer(store, i, j)
       IN  <<FeedEntry(top, store[top])>> \o Ordered(store, ids \ {top})

\* Variant: the query without its where clause.
QueryUnfiltered(store, uid) == Ordered(store, 1 .. Len(store))

Query(store, uid) == Ordered(store, Matching(store, uid))

\* Variant: the callback appends the delivered documents to the list.
SnapshotAppend(c) ==
  /\ sub[c]
  /\ userStats[c].uid # NoUid
  /\ feed' = [feed EXCEPT ![c] = @ \o Query(invites, userStats[c].uid)]
  /\ UNCHANGED <<users, invites, now, userStats, cl, rd, sub>>

\* onSnapshot delivers the current query result; setInvites replaces the list.
Snapshot(c) ==
  /\ sub[c]
  /\ userStats[c].uid # NoUid
  /\ feed' = [feed EXCEPT ![c] = Query(invites, userStats[c].uid)]
  /\ UNCHANGED <<users, invites, now, userStats, cl, rd, sub>>

\* The listener fails: the error callback runs and no more snapshots come.
SnapshotError(c) ==
  /\ sub[c]
  /\ userStats[c].uid # NoUid
  /\ sub' = [sub EXCEPT ![c] = FALSE]
  /\ cl' = [cl EXCEPT ![c].error = ErrFeed]
  /\ UNCHANGED <<users, invites, now, userStats, rd, feed>>

\* The server clock advances.
Tick ==
  /\ now < MaxTime
  /\ now' = now + 1
  /\ UNCHANGED <<users, invites, userStats, cl, rd, feed, sub>>

\* ------------------------------------------------------------ redemption
IdleRedeemer ==
  [pc |-> "idle", code |-> 0, id |-> 0, readVer |-> 0, attempts |-> 0,
   result |-> "None"]

WithCode(code) == {i \in 1 .. Len(invites) : invites[i].code = code}

\* Redemption of a code by an account starts.
RedeemStart(a, code) ==
  /\ rd[a].pc = "idle"
  /\ rd' = [rd EXCEPT ![a] = [IdleRedeemer EXCEPT !.pc = "get", !.code = code,
                                                  !.attempts = 1]]
  /\ UNCHANGED <<users, invites, now, userStats, cl, feed, sub>>

RedeemDone(a, res) == [IdleRedeemer EXCEPT !.result = res]

\* Step 1: read the invite by code; NotFound, AlreadyUsed, Expired.
RedeemGet(a) ==
  /\ rd[a].pc = "get"
  /\ IF WithCode(rd[a].code) = {}
     THEN rd' = [rd EXCEPT ![a] = RedeemDone(a, "NotFound")]
     ELSE \E i \in WithCode(rd[a].code) :
            IF invites[i].used
            THEN rd' = [rd EXCEPT ![a] = RedeemDone(a, "AlreadyUsed")]
            ELSE IF now > invites[i].expiresAt
            THEN rd' = [rd EXCEPT ![a] = RedeemDone(a, "Expired")]
            ELSE rd' = [rd EXCEPT ![a] = [@ EXCEPT !.pc = "commit", !.id = i,
                                                   !.readVer = invites[i].ver]]
  /\ UNCHANGED <<users, invites, now, userStats, cl, feed, sub>>

MarkUsed(inv, a, t) ==
  [inv EXCEPT !.used = TRUE, !.usedBy = a, !.usedAt = t, !.ver = @ + 1]

\* Steps 2 and 3: the Used transition, committed unless the invite changed
\* since it was read; then the whole unit is retried.
RedeemCommit(a) ==
  /\ rd[a].pc = "commit"
  /\ IF invites[rd[a].id].ver = rd[a].readVer
     THEN /\ invites' = [invites EXCEPT ![rd[a].id] = MarkUsed(@, a, now)]
          /\ rd' = [rd EXCEPT ![a] = RedeemDone(a, "Ok")]
     ELSE /\ UNCHANGED invites
          /\ IF rd[a].attempts < MaxAttempts
             THEN rd' = [rd EXCEPT ![a] = [@ EXCEPT !.pc = "get", !.id = 0,
                                                    !.readVer = 0, !.attempts = @ + 1]]
             ELSE rd' = [rd EXCEPT ![a] = RedeemDone(a, "Contention")]
  /\ UNCHANGED <<users, now, userStats, cl, feed, sub>>

\* ------------------------------------------------------- specification
OrdinaryDocs == {NoUserDoc, UserDocNoField} \cup {UserDoc(q) : q \in 0 .. MaxQuota}
AdminDocs == {NoUserDoc, UserDocNoField} \cup {UserDoc(q) : q \in -1 .. 1}

\* The state after the components are mounted; cached is the set of values
\* the userStats.invitesAvailable handed to a component is drawn from.
InitCached(cached) ==
  /\ users \in {u \in [Users -> OrdinaryDocs \cup AdminDocs] :
                  u["ana"] \in OrdinaryDocs /\ u["root"] \in AdminDocs}
  /\ invites = << >>
  /\ now = 0
  /\ userStats \in [Clients -> {Stats(p, q) : p \in StatsSet, q \in cached}]
  /\ cl = [c \in Clients |-> IdleClient]
  /\ rd = [a \in Accounts |-> IdleRedeemer]
  /\ feed = [c \in Clients |-> << >>]
  /\ sub = [c \in Clients |-> TRUE]

\* handleGenerate does not read userStats.invitesAvailable: here every
\* component holds 0; SpecEnv draws it freely.
Init == InitCached({0})

\* The component alone: issuance by the mounted components, and the clock.
Next ==
  \/ \E c \in Clients : HandleGenerate(c)
  \/ \E c \in Clients : TxGet(c)
  \/ \E c \in Clients : TxCommit(c)
  \/ Tick

Spec == Init /\ [][Next]_vars

\* The component together with redemption, for users whose documents exist:
\* ana with one invite available, root with none.
\* The allowance of a user is replenished from outside the component.
Replenish(u) ==
  /\ users[u].exists
  /\ users[u].ver < MaxVer
  /\ \E q \in 1 .. MaxQuota :
       users' = [users EXCEPT ![u] =
                   [@ EXCEPT !.hasQuota = TRUE, !.invitesAvailable = q,
                             !.ver = @ + 1]]
  /\ UNCHANGED <<invites, now, userStats, cl, rd, feed, sub>>

\* The components hold any cached allowance, whatever the store holds.
InitEnv == InitCached(0 .. 1)

\* Issuance in its environment: calls made at any moment, and allowances
\* replenished while transactions are in flight.
NextEnv ==
  \/ Next
  \/ \E c \in Clients : HandleGenerateIgnored(c)
  \/ \E u \in Users : Replenish(u)

SpecEnv == InitEnv /\ [][NextEnv]_vars

\* Termination does not depend on the shape of the user documents: one
\* ordinary user with one invite left and one administrator.
InitFair ==
  /\ Init
  /\ users = [u \in Users |-> IF u = "ana" THEN UserDoc(1) ELSE UserDoc(0)]

\* A transaction that was started keeps running: the store answers every
\* read and every commit.
SpecFair ==
  /\ InitFair
  /\ [][NextEnv]_vars
  /\ \A c \in Clients : WF_vars(TxGet(c)) /\ WF_vars(TxCommit(c))

\* The history does not depend on the shape of the user documents: one
\* ordinary user with one invite left and one administrator.
InitFeed ==
  /\ Init
  /\ users = [u \in Users |-> IF u = "ana" THEN UserDoc(1) ELSE UserDoc(0)]

\* Issuance with the history subscription of every component.
NextFeed ==
  \/ Next
  \/ \E c \in Clients : Snapshot(c)
  \/ \E c \in Clients : SnapshotError(c)

\* A live listener is eventually handed every change of its query result.
SpecFeed ==
  InitFeed /\ [][NextFeed]_vars /\ \A c \in Clients : WF_vars(Snapshot(c))

InitRedeem ==
  /\ Init
  /\ users = [u \in Users |-> IF u = "ana" THEN UserDoc(1) ELSE UserDoc(0)]

NextRedeem ==
  \/ \E c \in Clients : HandleGenerate(c)
  \/ \E c \in Clients : HandleGenerateIgnored(c)
  \/ \E c \in Clients : TxGet(c)
  \/ \E c \in Clients : TxCommit(c)
  \/ \E a \in Accounts, code \in Codes : RedeemStart(a, code)
  \/ \E a \in Accounts : RedeemGet(a)
  \/ \E a \in Accounts : RedeemCommit(a)
  \/ Tick

SpecRedeem == InitRedeem /\ [][NextRedeem]_vars

\* ================================================================ claims
OrdinaryClients == {c \in Clients : ~IsAdmin(userStats[c])}
AdminClients == {c \in Clients : IsAdmin(userStats[c])}
OrdinaryUsers == {s.uid : s \in {t \in StatsSet : ~IsAdmin(t)}}
Uid(c) == userStats[c].uid

IssuedIn(inv, uid) == {i \in 1 .. Len(inv) : inv[i].createdBy = uid}
IssuedBy(uid) == IssuedIn(invites, uid)

\* Steps of component c.
Finishes(c) == cl[c].loading /\ ~cl'[c].loading
Succeeds(c) == Finishes(c) /\ cl'[c].error = NoError
Rejected(c) == Finishes(c) /\ cl'[c].error # NoError

\* C1: among concurrent issuance transactions of one ordinary issuer whose
\* stored invitesAvailable is positive, exactly one commits an invite and
\* every other one ends rejected: the issuer never has two invites, a call
\* is rejected only once the stored allowance is gone, and a call that ends
\* either is the one that created the issuer's only invite or is rejected
\* and leaves the store alone.
C1_OneIssuance ==
  \A c \in OrdinaryClients :
    /\ Rejected(c) =>
         /\ QuotaOrZero(users[Uid(c)]) <= 0
         /\ invites' = invites /\ users' = users
    /\ Succeeds(c) =>
         /\ IssuedBy(Uid(c)) = {}
         /\ Cardinality(IssuedIn(invites', Uid(c))) = 1
C1_ExactlyOneCommits ==
  /\ [](\A u \in OrdinaryUsers : Cardinality(IssuedBy(u)) <= 1)
  /\ [][C1_OneIssuance]_vars

\* Two components of the same ordinary issuer raced: one committed the
\* invite, the other was refused at commit and runs the body again.
C1_Witness ==
  \E c1, c2 \in OrdinaryClients :
    /\ c1 # c2 /\ Uid(c1) = Uid(c2)
    /\ cl[c1].pc = "idle" /\ cl[c1].error = NoError
    /\ cl[c2].pc = "get" /\ cl[c2].attempts = 2
    /\ Cardinality(IssuedBy(Uid(c1))) = 1

\* C2: issuance is atomic.  An ordinary issuer has an invite exactly when the
\* quota write of the same commit was applied to the issuer's document (as
\* many invites as versions of the document), and a call that fails leaves
\* the invites and the user documents as they were.
C2_FailureChangesNothing ==
  \A c \in Clients :
    (cl'[c] # cl[c] /\ ~Succeeds(c)) => (invites' = invites /\ users' = users)
C2_Atomic ==
  /\ [](\A u \in OrdinaryUsers : Cardinality(IssuedBy(u)) = users[u].ver)
  /\ [][C2_FailureChangesNothing]_vars

\* An ordinary issuer's invite exists together with the quota write, while
\* a call of another issuer has failed on a missing user document.
C2_Witness ==
  /\ \E u \in OrdinaryUsers :
       IssuedBy(u) # {} /\ users[u].ver = 1 /\ users[u].invitesAvailable = 0
  /\ \E c \in Clients : cl[c].error = ErrUserNotFound

\* C3: an ordinary issuer's stored invitesAvailable, non-negative at the
\* start, is never negative.
C3_QuotaNonNegative ==
  \A u \in OrdinaryUsers : users[u].invitesAvailable >= 0

\* An ordinary issuer has issued and the stored allowance was written.
C3_Witness ==
  \E u \in OrdinaryUsers :
    IssuedBy(u) # {} /\ users[u].ver > 0 /\ users[u].invitesAvailable = 0

\* C4: in a sequence of calls of one ordinary issuer, at most one succeeds;
\* every run of the body after the issuer's invite was created ends the call
\* with the quota-exhausted error and creates nothing.
C4_AfterSuccess ==
  \A c \in OrdinaryClients :
    /\ Succeeds(c) => IssuedBy(Uid(c)) = {}
    /\ (cl[c].pc = "get" /\ cl'[c] # cl[c] /\ IssuedBy(Uid(c)) # {}) =>
         /\ cl'[c].pc = "idle" /\ cl'[c].error = ErrNoQuota
         /\ invites' = invites /\ users' = users
C4_SequentialCalls == [][C4_AfterSuccess]_vars

\* The only component of an ordinary issuer has issued once and its next
\* call ended with the quota-exhausted error.
C4_Witness ==
  \E c \in OrdinaryClients :
    /\ \A d \in OrdinaryClients : d = c
    /\ cl[c].pc = "idle" /\ cl[c].error = ErrNoQuota
    /\ Cardinality(IssuedBy(Uid(c))) = 1

\* C5: every issuance call of a privileged issuer whose user document exists
\* succeeds and creates an invite, whatever the stored invitesAvailable
\* (positive, 0, negative or absent): the body never throws, the commit is
\* never refused, and the commit appends an invite of that issuer.
C5_AdminStep ==
  \A c \in AdminClients :
    users[Uid(c)].exists =>
      /\ (cl[c].pc = "get" /\ cl'[c] # cl[c]) => cl'[c].pc = "commit"
      /\ (cl[c].pc = "commit" /\ cl'[c] # cl[c]) =>
           /\ Succeeds(c)
           /\ Len(invites') = Len(invites) + 1
           /\ invites'[Len(invites')].createdBy = Uid(c)
C6_AdminStep ==
  \A c \in AdminClients :
    /\ cl'[c] # cl[c] => users' = users
    /\ (cl[c].pc = "get" /\ cl'[c] # cl[c]) =>
         \A q \in -1 .. MaxQuota :
           LET r0 == UpdateFunction(userStats[c], users[Uid(c)], 1)
               r1 == UpdateFunction(userStats[c], UserDoc(q), 1)
           IN users[Uid(c)].exists => (r1.threw = r0.threw /\ r1.writes = r0.writes)
C6_AdminQuotaUntouched == [][C6_AdminStep]_vars

\* A privileged issuer has issued and the stored allowance is the initial,
\* positive one.
C6_Witness ==
  \E c \in AdminClients :
    /\ IssuedBy(Uid(c)) # {}
    /\ users[Uid(c)] = UserDoc(1)

\* C7: no two invite records carry the same code.
C7_UniqueCodes ==
  \A i, j \in 1 .. Len(invites) : invites[i].code = invites[j].code => i = j

\* C8: a code is redeemed at most once, and a redemption of a code that was
\* redeemed fails with AlreadyUsed and changes nothing.
RedeemOk(a) == rd[a].pc = "commit" /\ rd'[a].result = "Ok"
C8_RedeemStep ==
  \A a \in Accounts :
    /\ RedeemOk(a) => \A i \in WithCode(rd[a].code) : ~invites[i].used
    /\ (rd[a].pc = "get" /\ rd'[a] # rd[a]
          /\ \E i \in WithCode(rd[a].code) : invites[i].used) =>
         (rd'[a].result = "AlreadyUsed" /\ invites' = invites)
C8_RedeemedOnce == [][C8_RedeemStep]_vars

\* C9: a successful issuance of an ordinary issuer whose stored allowance is
\* any q > 0 leaves exactly 0 stored, written by the commit that appends
\* the invite.
C9_Step ==
  \A c \in OrdinaryClients :
    Succeeds(c) =>
      /\ QuotaOrZero(users[Uid(c)]) > 0
      /\ users'[Uid(c)].invitesAvailable = 0
      /\ users'[Uid(c)].ver = users[Uid(c)].ver + 1
      /\ Len(invites') = Len(invites) + 1
C9_QuotaSetToZero == [][C9_Step]_vars

\* An ordinary issuer issued while 2 invites were stored as available (a
\* second component still holds that read) and 0 is stored now.
C9_Witness ==
  \E c \in OrdinaryClients :
    /\ cl[c].pc = "commit" /\ cl[c].currentQuota = 2
    /\ IssuedBy(Uid(c)) # {}
    /\ users[Uid(c)].invitesAvailable = 0

\* C10 as stated: a successful issuance of an ordinary issuer decrements the
\* stored invitesAvailable by exactly 1.
C10_DecrementStep ==
  \A c \in OrdinaryClients :
    Succeeds(c) =>
      users'[Uid(c)].invitesAvailable = users[Uid(c)].invitesAvailable - 1
C10_DecrementByOne == [][C10_DecrementStep]_vars

\* C10 as amended: a successful issuance of an ordinary issuer takes the
\* whole stored allowance q >= 1 away (new value = old value - q), which is
\* a decrement by exactly 1 only when q = 1.
C10_WholeStep ==
  \A c \in OrdinaryClients :
    Succeeds(c) =>
      LET old == users[Uid(c)].invitesAvailable
          new == users'[Uid(c)].invitesAvailable
      IN /\ old >= 1
         /\ old - new = old
         /\ (new = old - 1) <=> (old = 1)
C10_DecrementIsWholeQuota == [][C10_WholeStep]_vars

\* The component that issued is idle without error, the stored allowance
\* went from 2 or more to 0, and the component that lost still holds the
\* old read.
C10_Witness ==
  \E c1, c2 \in OrdinaryClients :
    /\ c1 # c2 /\ Uid(c1) = Uid(c2)
    /\ cl[c1].pc = "idle" /\ cl[c1].error = NoError
    /\ cl[c2].pc = "commit" /\ cl[c2].currentQuota >= 2 /\ cl[c2].readVer = 0
    /\ users[Uid(c1)].ver = 1 /\ users[Uid(c1)].invitesAvailable = 0
    /\ Cardinality(IssuedBy(Uid(c1))) = 1

\* C11: for every invite record, used holds exactly when usedBy and usedAt
\* are both set; a record that is not used (as every record is when it is
\* created) has neither; and the feed entry of a record has status 'used'
\* exactly when used holds.
C11_UsedConsistent ==
  \A i \in 1 .. Len(invites) :
    /\ invites[i].used <=>
         (invites[i].usedBy # NoAccount /\ invites[i].usedAt # NoTime)
    /\ ~invites[i].used =>
         (invites[i].usedBy = NoAccount /\ invites[i].usedAt = NoTime)
    /\ (FeedEntry(i, invites[i]).status = "used") <=> invites[i].used
    /\ FeedEntry(i, invites[i]).status \in {"used", "active"}

\* One invite was redeemed, another one was created and is still active.
C11_Witness ==
  \E i, j \in 1 .. Len(invites) :
    /\ invites[i].used /\ invites[i].usedBy \in Accounts
    /\ ~invites[j].used /\ FeedEntry(j, invites[j]).status = "active"

\* C12: the list a component shows holds only records whose createdBy is
\* the uid of that component.
C12_OwnInvitesOnly ==
  \A c \in Clients :
    \A k \in 1 .. Len(feed[c]) : feed[c][k].createdBy = Uid(c)

\* A component lists an invite of its own while the store also holds an
\* invite issued by a different user.
C12_Witness ==
  \E c \in Clients :
    /\ feed[c] # << >>
    /\ \E i \in 1 .. Len(invites) : invites[i].createdBy # Uid(c)

\* The invite with identifier i is shown by component c as active.
Listed(c, i) ==
  \E k \in 1 .. Len(feed[c]) :
    feed[c][k].id = i /\ feed[c][k].status = "active"

\* C13: every committed issuance is eventually shown, with status 'active',
\* by every component of the issuer whose subscription stays active; and a
\* delivery replaces the list by the query result, so that delivering the
\* same result again leaves the list as it is.
C13_EventuallyListed ==
  /\ \A c \in Clients : \A i \in 1 .. MaxInvites :
       (i <= Len(invites) /\ invites[i].createdBy = Uid(c))
         ~> (~sub[c] \/ Listed(c, i))
  /\ [][\A c \in Clients :
          feed'[c] # feed[c] => feed'[c] = Query(invites, Uid(c))]_vars

\* A component shows exactly the current result of its query, which is not
\* empty: a further delivery finds the list already equal to it.
C13_Witness ==
  \E c \in Clients :
    /\ sub[c]
    /\ feed[c] # << >>
    /\ feed[c] = Query(invites, Uid(c))
    /\ \A i \in Matching(invites, Uid(c)) : Listed(c, i)

\* C14: every issuance call terminates; a call never runs more than
\* MaxAttempts attempts; and a commit refused on the last attempt ends the
\* call with the contention error, which is neither success nor the
\* quota-exhausted error, and leaves the invites and the user documents as
\* they were.
C14_Terminates ==
  /\ \A c \in Clients : cl[c].loading ~> ~cl[c].loading
  /\ [](\A c \in Clients : cl[c].attempts <= MaxAttempts)
  /\ [][\A c \in Clients :
          (/\ cl[c].pc = "commit"
           /\ cl[c].attempts = MaxAttempts
           /\ ~CommitValid(users[Uid(c)], cl[c].readVer)
           /\ cl'[c] # cl[c])
          => /\ Finishes(c)
             /\ cl'[c].error = ErrContention
             /\ ErrContention \notin {NoError, ErrNoQuota, ErrUserNotFound}
             /\ invites' = invites
             /\ users' = users]_vars

\* A call has ended with the contention error.
C14_Witness ==
  \E c \in Clients : ~cl[c].loading /\ cl[c].error = ErrContention

\* What an invite keeps for its whole life.
Identity(inv) ==
  [code |-> inv.code, createdBy |-> inv.createdBy,
   createdAt |-> inv.createdAt, expiresAt |-> inv.expiresAt]

\* C15: no step removes an invite or changes the code, createdBy, createdAt
\* or expiresAt of a stored invite, and a step of issuance (a step that is
\* not a step of redemption) leaves every stored invite exactly as it was.
C15_InvitesOnlyGrow ==
  [][/\ Len(invites') >= Len(invites)
     /\ \A i \in 1 .. Len(invites) :
          /\ Identity(invites'[i]) = Identity(invites[i])
          /\ rd' = rd => invites'[i] = invites[i]]_vars

\* An invite was issued while an older one, since redeemed, was stored.
C15_Witness ==
  /\ Len(invites) = MaxInvites
  /\ invites[1].used
  /\ ~invites[MaxInvites].used

\* C16: the step that ends a call with success appends exactly one invite,
\* whose createdBy is the uid of the caller, and leaves the stored invites
\* as they were; every other step of a call, a refused attempt and its
\* retry included, leaves the invites unchanged.
C16_OneInvitePerSuccess ==
  [][\A c \in Clients :
       /\ Succeeds(c) =>
            /\ Len(invites') = Len(invites) + 1
            /\ SubSeq(invites', 1, Len(invites)) = invites
            /\ invites'[Len(invites')].createdBy = Uid(c)
       /\ (cl'[c] # cl[c] /\ ~Succeeds(c)) => invites' = invites]_vars

\* The body of a transaction ran again after a refused commit, and the
\* invite of the call is stored once the commit of this attempt is accepted.
C16_Witness ==
  \E c \in Clients :
    /\ cl[c].pc = "commit"
    /\ cl[c].attempts = MaxAttempts
    /\ cl[c].writes # << >>
    /\ CommitValid(users[Uid(c)], cl[c].readVer)
    /\ IssuedBy(Uid(c)) = {}

\* C17: whatever allowance the component has cached, an attempt of an
\* ordinary issuer whose user document exists is rejected as out of quota
\* when the stored invitesAvailable read by the transaction is not positive,
\* and goes on to commit with the value read when it is positive; a commit
\* whose read is still current ends the call with success.
C17_GateReadsStore ==
  [][\A c \in OrdinaryClients :
       /\ (cl[c].pc = "get" /\ cl'[c] # cl[c] /\ users[Uid(c)].exists) =>
            IF QuotaOrZero(users[Uid(c)]) <= 0
            THEN Rejected(c) /\ cl'[c].error = ErrNoQuota
            ELSE /\ cl'[c].pc = "commit"
                 /\ cl'[c].currentQuota = QuotaOrZero(users[Uid(c)])
       /\ (/\ cl[c].pc = "commit" /\ cl'[c] # cl[c]
           /\ CommitValid(users[Uid(c)], cl[c].readVer)) => Succeeds(c)]_vars

\* A component that cached a positive allowance was rejected as out of
\* quota, and the call of a component that cached 0 passed the gate on a
\* positive stored allowance and is about to commit.
C17_Witness ==
  \E c1, c2 \in OrdinaryClients :
    /\ HasQuota(userStats[c1])
    /\ cl[c1].pc = "idle" /\ cl[c1].error = ErrNoQuota
    /\ ~CanGenerate(userStats[c2])
    /\ cl[c2].pc = "commit" /\ cl[c2].currentQuota > 0
    /\ CommitValid(users[Uid(c2)], cl[c2].readVer)

\* C18: a component never has more than one transaction in flight; loading
\* is true exactly while its transaction is in flight, so that a call made
\* meanwhile starts nothing and loading is false again once the call has
\* finished.
C18_OneInFlight ==
  \A c \in Clients :
    /\ cl[c].txs \in {0, 1}
    /\ cl[c].loading <=> cl[c].txs = 1
    /\ cl[c].pc = "idle" <=> cl[c].txs = 0
    /\ cl[c].loading => ENABLED HandleGenerateIgnored(c)
    /\ cl[c].loading => ~ENABLED HandleGenerate(c)

\* The only component of a user finished a call that issued an invite and
\* has a later call in flight.
C18_Witness ==
  \E c \in Clients :
    /\ cl[c].loading
    /\ IssuedBy(Uid(c)) # {}
    /\ \A d \in Clients \ {c} : Uid(d) # Uid(c)

\* C19: every stored invite has an expiresAt strictly later than its
\* createdAt.
C19_ExpiresAfterCreation ==
  \A i \in 1 .. Len(invites) : invites[i].expiresAt > invites[i].createdAt

====
